---------------------------- MODULE Spec2Model ----------------------------
(***************************************************************************)
(* Model of the goaqara client (package aqara): the AqaraClient session    *)
(* state, the three operations GetAuthCode, GetToken and GetDevices, the    *)
(* shared apiCall, the signer sign and the nonce generator getNonce.        *)
(*                                                                          *)
(* Go strings are modelled as sequences of ASCII codes, so that             *)
(* strings.ToLower, fmt.Sprintf concatenation, md5.Sum and                  *)
(* hex.EncodeToString are computed as the code computes them.               *)
(***************************************************************************)
EXTENDS Integers, Sequences, FiniteSets, TLC

VARIABLES
    a,         \* the AqaraClient (the receiver of every method)
    pre,       \* the AqaraClient as it was when the last operation was invoked
    clock,     \* the last reading of time.Now(), in nanoseconds
    nonces,    \* the Nonce header of every request handed to client.Do, in order
    op,        \* the last operation invoked, with its argument
    request,   \* apiCall's *http.Request of that operation
    sends,     \* how many times that operation called client.Do
    reply,     \* what client.Do and io.ReadAll delivered to it
    response,  \* the operation's local AqaraResponse after apiCall
    err,       \* the error apiCall returned to the operation
    typed,     \* the operation's json.Unmarshal of response.Result into its Result
    log,       \* the lines the operation wrote with log.Printf
    ret,       \* what the operation returned to its caller
    signed,    \* the last direct call of sign: arguments, hashed string, result
    test,      \* the outcome of TestSign
    thr        \* a GetDevices and a GetToken running concurrently on a: their
               \* positions and what each holds in its locals

vars == <<a, pre, clock, nonces, op, request, sends, reply, response, err, typed, log,
          ret, signed, test, thr>>

(***************************************************************************)
(* Strings                                                                  *)
(***************************************************************************)

\* The empty Go string "".
Empty == << >>

\* strings.ToLower on one ASCII byte: 'A'..'Z' map to 'a'..'z'.
LowerChar(c) == IF c >= 65 /\ c <= 90 THEN c + 32 ELSE c

\* strings.ToLower(s), part_001 line 277.
ToLower(s) == CHOOSE r \in { [i \in 1..Len(x) |-> LowerChar(x[i])] : x \in {s} } : TRUE

\* Literals of the two fmt.Sprintf formats of sign.
StrAccesstokenEq == <<65, 99, 99, 101, 115, 115, 116, 111, 107, 101, 110, 61>>  \* "Accesstoken="
StrAppidEq       == <<65, 112, 112, 105, 100, 61>>                              \* "Appid="
StrAmpAppidEq    == <<38, 65, 112, 112, 105, 100, 61>>                          \* "&Appid="
StrAmpKeyidEq    == <<38, 75, 101, 121, 105, 100, 61>>                          \* "&Keyid="
StrAmpNonceEq    == <<38, 78, 111, 110, 99, 101, 61>>                           \* "&Nonce="
StrAmpTimeEq     == <<38, 84, 105, 109, 101, 61>>                               \* "&Time="

(***************************************************************************)
(* crypto/md5 and encoding/hex, as used by sign (RFC 1321).  A 32-bit word  *)
(* is a pair <<hi, lo>> of 16-bit halves, so that no sum leaves the range   *)
(* of 32-bit integer arithmetic.                                            *)
(***************************************************************************)

\* Bit p (a power of two) of x.
BitAt(x, p) == (x \div p) % 2

\* The bitwise operations on 4-bit values, tabulated: entry [x + 1][y + 1].
And4 ==
    [x \in 1..16 |-> [y \in 1..16 |->
        BitAt(x - 1, 1) * BitAt(y - 1, 1) + 2 * BitAt(x - 1, 2) * BitAt(y - 1, 2)
      + 4 * BitAt(x - 1, 4) * BitAt(y - 1, 4) + 8 * BitAt(x - 1, 8) * BitAt(y - 1, 8)]]
Xor4 ==
    [x \in 1..16 |-> [y \in 1..16 |->
        ((BitAt(x - 1, 1) + BitAt(y - 1, 1)) % 2)
      + 2 * ((BitAt(x - 1, 2) + BitAt(y - 1, 2)) % 2)
      + 4 * ((BitAt(x - 1, 4) + BitAt(y - 1, 4)) % 2)
      + 8 * ((BitAt(x - 1, 8) + BitAt(y - 1, 8)) % 2)]]

\* The bitwise operations on 16-bit values, four bits at a time.
And16(x, y) ==
      And4[(x % 16) + 1][(y % 16) + 1]
    + 16 * And4[((x \div 16) % 16) + 1][((y \div 16) % 16) + 1]
    + 256 * And4[((x \div 256) % 16) + 1][((y \div 256) % 16) + 1]
    + 4096 * And4[(x \div 4096) + 1][(y \div 4096) + 1]
Xor16(x, y) ==
      Xor4[(x % 16) + 1][(y % 16) + 1]
    + 16 * Xor4[((x \div 16) % 16) + 1][((y \div 16) % 16) + 1]
    + 256 * Xor4[((x \div 256) % 16) + 1][((y \div 256) % 16) + 1]
    + 4096 * Xor4[(x \div 4096) + 1][(y \div 4096) + 1]

\* Addition modulo 2^32.
Add32(x, y) ==
    LET lo == x[2] + y[2]
        hi == x[1] + y[1] + (lo \div 65536)
    IN  <<hi % 65536, lo % 65536>>

\* 2^s for s in 0..16, as entry s + 1.
Pow2 == <<1, 2, 4, 8, 16, 32, 64, 128, 256, 512, 1024, 2048, 4096, 8192, 16384, 32768, 65536>>

\* Rotation to the left by s bits (0 < s < 32).
RotL(x, s) ==
    LET hi == IF s < 16 THEN x[1] ELSE x[2]
        lo == IF s < 16 THEN x[2] ELSE x[1]
        r  == s % 16
        up == Pow2[r + 1]
        dn == Pow2[16 - r + 1]
    IN  <<(hi % dn) * up + (lo \div dn), (lo % dn) * up + (hi \div dn)>>

\* The four round functions of MD5 on 16-bit halves (65535 - x is not x):
\* F = xy | ~x z and G = xz | y ~z are sums, their two terms sharing no bit;
\* H = x ^ y ^ z;  I = y ^ (x | ~z), with x | w = x + w - (x & w).
MD5_F16(x, y, z) == And16(x, y) + And16(65535 - x, z)
MD5_G16(x, y, z) == And16(x, z) + And16(y, 65535 - z)
MD5_H16(x, y, z) == CHOOSE r \in {Xor16(t, z) : t \in {Xor16(x, y)}} : TRUE
MD5_I16(x, y, z) ==
    CHOOSE r \in {Xor16(y, t) : t \in {x + (65535 - z) - And16(x, 65535 - z)}} : TRUE

\* The four round functions F, G, H, I of MD5 on words.
MD5_F(x, y, z) == <<MD5_F16(x[1], y[1], z[1]), MD5_F16(x[2], y[2], z[2])>>
MD5_G(x, y, z) == <<MD5_G16(x[1], y[1], z[1]), MD5_G16(x[2], y[2], z[2])>>
MD5_H(x, y, z) == <<MD5_H16(x[1], y[1], z[1]), MD5_H16(x[2], y[2], z[2])>>
MD5_I(x, y, z) == <<MD5_I16(x[1], y[1], z[1]), MD5_I16(x[2], y[2], z[2])>>

\* The per-round shift amounts.
MD5_S ==
  << 7, 12, 17, 22, 7, 12, 17, 22, 7, 12, 17, 22, 7, 12, 17, 22,
     5, 9, 14, 20, 5, 9, 14, 20, 5, 9, 14, 20, 5, 9, 14, 20,
     4, 11, 16, 23, 4, 11, 16, 23, 4, 11, 16, 23, 4, 11, 16, 23,
     6, 10, 15, 21, 6, 10, 15, 21, 6, 10, 15, 21, 6, 10, 15, 21 >>

\* The per-round constants floor(2^32 * abs(sin(i)))), as halves.
MD5_K ==
  <<
    <<55146, 42104>>, <<59591, 46934>>, <<9248, 28891>>, <<49597, 52974>>,
    <<62844, 4015>>, <<18311, 50730>>, <<43056, 17939>>, <<64838, 38145>>,
    <<27008, 39128>>, <<35652, 63407>>, <<65535, 23473>>, <<35164, 55230>>,
    <<27536, 4386>>, <<64920, 29075>>, <<42617, 17294>>, <<18868, 2081>>,
    <<63006, 9570>>, <<49216, 45888>>, <<9822, 23121>>, <<59830, 51114>>,
    <<54831, 4189>>, <<580, 5203>>, <<55457, 59009>>, <<59347, 64456>>,
    <<8673, 52710>>, <<49975, 2006>>, <<62677, 3463>>, <<17754, 5357>>,
    <<43491, 59653>>, <<64751, 41976>>, <<26479, 729>>, <<36138, 19594>>,
    <<65530, 14658>>, <<34673, 63105>>, <<28061, 24866>>, <<64997, 14348>>,
    <<42174, 59972>>, <<19422, 53161>>, <<63163, 19296>>, <<48831, 48240>>,
    <<10395, 32454>>, <<60065, 10234>>, <<54511, 12421>>, <<1160, 7429>>,
    <<55764, 53305>>, <<59099, 39397>>, <<8098, 31992>>, <<50348, 22117>>,
    <<62505, 8772>>, <<17194, 65431>>, <<43924, 9127>>, <<64659, 41017>>,
    <<25947, 22979>>, <<36620, 52370>>, <<65519, 62589>>, <<34180, 24017>>,
    <<28584, 32335>>, <<65068, 59104>>, <<41729, 17172>>, <<19976, 4513>>,
    <<63315, 32386>>, <<48442, 62005>>, <<10967, 53947>>, <<60294, 54161>>
  >>

\* The initial chaining value A, B, C, D.
MD5_IV == << <<26437, 8961>>, <<61389, 43913>>, <<39098, 56574>>, <<4146, 21622>> >>

\* The message with the padding of MD5: 0x80, zeros up to 56 modulo 64, and
\* the length in bits as eight little-endian bytes.
MD5_Pad(msg) ==
    LET n     == Len(msg)
        zeros == (55 - n + 64 * ((n + 9) \div 64 + 1)) % 64
        bits  == 8 * n
        lenLE == [i \in 1..8 |-> IF i = 1 THEN bits % 256
                                  ELSE IF i = 2 THEN (bits \div 256) % 256
                                  ELSE IF i = 3 THEN (bits \div 65536) % 256
                                  ELSE 0]
    IN  msg \o <<128>> \o [i \in 1..zeros |-> 0] \o lenLE

\* Word g (0..15) of block k (0-based) of the padded message p.
MD5_M(p, k, g) ==
    LET o == 64 * k + 4 * g
    IN  <<p[o + 3] + 256 * p[o + 4], p[o + 1] + 256 * p[o + 2]>>

\* Round i (0..63) of the compression of block k of the padded message p,
\* applied to the state s = <<A, B, C, D>>.  The intermediate values are bound
\* by singleton sets so that each is computed once.
MD5_Step(p, k, i, s) ==
    LET g == IF i < 16 THEN i
             ELSE IF i < 32 THEN (5 * i + 1) % 16
             ELSE IF i < 48 THEN (3 * i + 5) % 16
             ELSE (7 * i) % 16
    IN  CHOOSE r \in
          { <<st[4], Add32(st[2], u), st[2], st[3]>> :
              st \in {s},
              u \in { RotL(t, MD5_S[i + 1]) :
                t \in { Add32(v, w) :
                  v \in { Add32(s[1], f) :
                    f \in { IF i < 16 THEN MD5_F(s[2], s[3], s[4])
                            ELSE IF i < 32 THEN MD5_G(s[2], s[3], s[4])
                            ELSE IF i < 48 THEN MD5_H(s[2], s[3], s[4])
                            ELSE MD5_I(s[2], s[3], s[4]) } },
                  w \in { Add32(MD5_K[i + 1], MD5_M(p, k, g)) } } } } : TRUE

RECURSIVE MD5_Range(_, _, _, _, _)
\* The state after rounds i..j-1 of the compression of block k, from the
\* state s; the range is halved so that the evaluation stays shallow.
MD5_Range(p, k, i, j, s) ==
    IF j = i + 1 THEN MD5_Step(p, k, i, s)
    ELSE CHOOSE r \in
           { MD5_Range(p, k, (i + j) \div 2, j, m) :
               m \in { MD5_Range(p, k, i, (i + j) \div 2, s) } } : TRUE

\* The state after the 64 rounds of the compression of block k, from the
\* chaining value h.
MD5_Rounds(p, k, h) == MD5_Range(p, k, 0, 64, h)

\* The chaining value after all blocks of the padded message p.
MD5_Blocks(p) ==
    LET H[k \in 0..(Len(p) \div 64)] ==
          IF k = 0 THEN MD5_IV
          ELSE CHOOSE n \in
                 { CHOOSE x \in
                     { <<Add32(h[1], r[1]), Add32(h[2], r[2]),
                         Add32(h[3], r[3]), Add32(h[4], r[4])>> :
                         r \in { MD5_Rounds(p, k - 1, h) } } : TRUE :
                   h \in { H[k - 1] } } : TRUE
    IN  H[Len(p) \div 64]

\* md5.Sum(msg): the sixteen bytes of the digest.
MD5_Sum(msg) ==
    CHOOSE s \in
      { [j \in 1..16 |->
          LET w == h[(j - 1) \div 4 + 1]
              q == (j - 1) % 4
          IN  IF q = 0 THEN w[2] % 256
              ELSE IF q = 1 THEN w[2] \div 256
              ELSE IF q = 2 THEN w[1] % 256
              ELSE w[1] \div 256] :
        h \in { MD5_Blocks(p) : p \in { MD5_Pad(msg) } } } : TRUE

\* One lower-case hexadecimal digit as an ASCII code.
HexDigit(d) == IF d < 10 THEN 48 + d ELSE 87 + d

\* hex.EncodeToString(bytes).
HexEncode(bytes) ==
    CHOOSE h \in
      { [i \in 1..(2 * Len(b)) |->
            IF i % 2 = 1 THEN HexDigit(b[(i + 1) \div 2] \div 16)
                         ELSE HexDigit(b[(i + 1) \div 2] % 16)] : b \in {bytes} } : TRUE


(***************************************************************************)
(* The client: part_001 lines 18-67 and 269-300                             *)
(***************************************************************************)

\* const nonceLength, line 18.
nonceLength == 16

\* The region servers, lines 22-29.
ServerRegionChina      == "open-cn.aqara.com"
ServerRegionUSA        == "open-usa.aqara.com"
ServerRegionSouthKorea == "open-kr.aqara.com"
ServerRegionRussia     == "open-ru.aqara.com"
ServerRegionEurope     == "open-ger.aqara.com"
ServerRegionSingapore  == "open-sg.aqara.com"

\* New(region, appID, keyID, appKey, account, debug): the fields in the
\* order of the parameters, both tokens empty.
New(region, appID, keyID, appKey, account, debug) ==
    [ region       |-> region,
      appID        |-> appID,
      keyID        |-> keyID,
      appKey       |-> appKey,
      account      |-> account,
      accessToken  |-> Empty,
      refreshToken |-> Empty,
      debug        |-> debug ]

\* sign formatting the string without the token, whatever the token is.
SignStringWithoutToken(c, accessToken, nonce, timestamp) ==
    ToLower(StrAppidEq \o c.appID \o StrAmpKeyidEq \o c.keyID \o StrAmpNonceEq \o nonce
            \o StrAmpTimeEq \o timestamp \o c.appKey)

\* sign with the key ID and the application key in each other's place.
SignStringKeysSwapped(c, accessToken, nonce, timestamp) ==
    ToLower(IF Len(accessToken) # 0
            THEN StrAccesstokenEq \o accessToken \o StrAmpAppidEq \o c.appID
                   \o StrAmpKeyidEq \o c.appKey \o StrAmpNonceEq \o nonce
                   \o StrAmpTimeEq \o timestamp \o c.keyID
            ELSE StrAppidEq \o c.appID
                   \o StrAmpKeyidEq \o c.appKey \o StrAmpNonceEq \o nonce
                   \o StrAmpTimeEq \o timestamp \o c.keyID)

\* The string sign passes to md5.Sum: one of the two fmt.Sprintf formats,
\* chosen by len(accessToken) != 0, then strings.ToLower (lines 271-277).
SignString(c, accessToken, nonce, timestamp) ==
    ToLower(IF Len(accessToken) # 0
            THEN StrAccesstokenEq \o accessToken \o StrAmpAppidEq \o c.appID
                   \o StrAmpKeyidEq \o c.keyID \o StrAmpNonceEq \o nonce
                   \o StrAmpTimeEq \o timestamp \o c.appKey
            ELSE StrAppidEq \o c.appID
                   \o StrAmpKeyidEq \o c.keyID \o StrAmpNonceEq \o nonce
                   \o StrAmpTimeEq \o timestamp \o c.appKey)

\* sign(accessToken, nonce, timestamp) of client c, lines 270-282.
sign(c, accessToken, nonce, timestamp) ==
    HexEncode(MD5_Sum(SignString(c, accessToken, nonce, timestamp)))

\* The charset of getNonce, line 286: a-z, A-Z, 0-9, as entry i + 1.
Charset(i) == IF i < 26 THEN 97 + i ELSE IF i < 52 THEN 65 + (i - 26) ELSE 48 + (i - 52)
CharsetLen == 62

\* The stream of a generator seeded with seed.  math/rand is a library whose
\* generator is a fixed function of its seed; it is stood for here by the
\* Lehmer generator that rand.NewSource itself seeds its state with
\* (x' = 48271 x mod 2^31 - 1, by Schrage's method).
SeedRand(x) ==
    LET hi == x \div 44488
        lo == x % 44488
        y  == 48271 * lo - 3399 * hi
    IN  IF y < 0 THEN y + 2147483647 ELSE y

RECURSIVE RandStream(_, _)
\* The first n values of the stream of the generator in state x.
RandStream(x, n) ==
    IF n = 0 THEN << >>
    ELSE CHOOSE r \in { <<y>> \o RandStream(y, n - 1) : y \in { SeedRand(x) } } : TRUE

\* getNonce(length) when time.Now().UnixNano() reads seed, lines 285-295.
getNonce(length, seed) ==
    CHOOSE b \in
      { [i \in 1..length |-> Charset(st[i] % CharsetLen)] :
          st \in { RandStream((seed % 2147483646) + 1, length) } } : TRUE

RECURSIVE FormatInt(_)
\* strconv.FormatInt(n, 10) for n >= 0.
FormatInt(n) == IF n < 10 THEN <<48 + n>> ELSE FormatInt(n \div 10) \o <<48 + (n % 10)>>

\* Nanoseconds in a millisecond: UnixNano against UnixMilli (lines 287, 299).
NanosPerMilli == 1000000

\* getTimestamp() when time.Now() reads now (in nanoseconds), lines 298-300.
getTimestamp(now) == FormatInt(now \div NanosPerMilli)


(***************************************************************************)
(* Values of the model                                                      *)
(***************************************************************************)

\* Bounds: the number of outbound calls of a run, and the nanoseconds the
\* clock advances over a run.
MaxCalls == 2
MaxTicks == 2

\* The clock starts one nanosecond before a millisecond boundary, so that
\* both UnixNano and UnixMilli change within MaxTicks.
StartClock == NanosPerMilli - 1
\* time.Now() read again: the same reading, or a later one.
ClockSteps == {0, 1}

\* Credentials and account of the clients of Spec ("Id", "Kd", "Ky", "u").
AppID0   == <<73, 100>>
KeyID0   == <<75, 100>>
AppKey0  == <<75, 121>>
Account0 == <<117>>

\* A region whose URL http.NewRequest cannot parse (a space in the host).
InvalidRegion == "open ger.aqara.com"
RegionServers ==
    { ServerRegionChina, ServerRegionUSA, ServerRegionSouthKorea,
      ServerRegionRussia, ServerRegionEurope, ServerRegionSingapore }

\* Tokens a server hands out ("A", "B") and ("R", "S"); auth codes ("7").
TokA == <<65>>
TokB == <<66>>
RefR == <<82>>
RefS == <<83>>
AuthCodes == { <<55>> }

\* A field of a JSON object: absent, a JSON string, or a JSON number.
Absent  == [t |-> "absent", s |-> Empty]
Str(x)  == [t |-> "string", s |-> x]
Number  == [t |-> "number", s |-> Empty]

\* The raw JSON of "result": absent from the envelope (a nil RawMessage), a
\* JSON string, or an object with some of accessToken, refreshToken and
\* totalCount.
NoResult == [type |-> "none", accessToken |-> Absent, refreshToken |-> Absent, totalCount |-> 0]
StringResult == [type |-> "string", accessToken |-> Absent, refreshToken |-> Absent, totalCount |-> 0]
Object(at, rt, n) == [type |-> "object", accessToken |-> at, refreshToken |-> rt, totalCount |-> n]
Results ==
    { NoResult, StringResult,
      Object(Str(TokA), Str(RefR), 0), Object(Str(TokB), Str(RefS), 0),
      Object(Str(TokA), Absent, 0), Object(Number, Str(RefS), 0),
      Object(Absent, Absent, 1) }

\* Vendor codes other than 0, and a vendor detail message ("bad").
VendorCodes == {302}
Detail == <<98, 97, 100>>

\* A response body.  valid: the body is a JSON object; mismatch: some field
\* of it has a JSON type its struct field cannot take (requestId a number),
\* the other fields being well typed.
Body(valid, mismatch, code, result) ==
    [ valid |-> valid, mismatch |-> mismatch, code |-> code,
      messageDetail |-> IF code = 0 THEN Empty ELSE Detail, result |-> result ]
NoBody == Body(FALSE, FALSE, 0, NoResult)
Bodies ==
    { NoBody }
    \cup { Body(TRUE, FALSE, 0, r) : r \in Results }
    \cup { Body(TRUE, FALSE, c, r) :
             c \in VendorCodes,
             r \in { Object(Str(TokA), Str(RefR), 0), Object(Str(TokB), Str(RefS), 0) } }
    \cup { Body(TRUE, TRUE, 0, r) : r \in { NoResult, Object(Str(TokB), Str(RefS), 0) } }
    \cup { Body(TRUE, TRUE, c, Object(Str(TokB), Str(RefS), 0)) : c \in VendorCodes }

\* What the transport delivers: an error of client.Do, a status other than
\* 200, a 200 whose body cannot be read, or a 200 with a body.
NoReply == [kind |-> "none", status |-> 0, readOK |-> FALSE, body |-> NoBody]
Replies ==
    { [kind |-> "neterr", status |-> 0, readOK |-> FALSE, body |-> NoBody],
      [kind |-> "http", status |-> 500, readOK |-> FALSE, body |-> NoBody],
      [kind |-> "http", status |-> 200, readOK |-> FALSE, body |-> NoBody] }
    \cup { [kind |-> "http", status |-> 200, readOK |-> TRUE, body |-> b] : b \in Bodies }

\* Errors: nil, or an error value.  code is the number its text is formatted
\* from (fmt.Errorf with %v), 0 when there is none; detail is the vendor's
\* message in its text, empty when there is none.
NoError == [kind |-> "nil", code |-> 0, detail |-> Empty]
Error(kind, code, detail) == [kind |-> kind, code |-> code, detail |-> detail]

\* AqaraResponse{}, line 86, 110 and 155.
ZeroResponse == [Code |-> 0, MessageDetail |-> Empty, Result |-> NoResult]

NoRequest == [sent |-> FALSE]
NoValue == "no value"


(***************************************************************************)
(* apiCall, part_001 lines 194-267                                          *)
(***************************************************************************)

\* json.Unmarshal(responseBody, aqaraResponse), line 247: an invalid body
\* writes nothing; a body with a mistyped field writes the other fields and
\* still returns an error.
UnmarshalResponse(body, into) ==
    IF ~body.valid
    THEN [err |-> TRUE, response |-> into]
    ELSE [err |-> body.mismatch,
          response |-> [Code |-> body.code, MessageDetail |-> body.messageDetail,
                        Result |-> body.result]]

\* apiCall signing with the session's token whether authenticated or not.
apiCallRequestAlwaysSignsToken(c, aqaraRequest, authenticated, t1, t2) ==
    IF c.region \notin RegionServers
    THEN NoRequest
    ELSE
      CHOOSE r \in
        { [ sent        |-> TRUE,
            url         |-> <<"https://", c.region, "/v3.0/open/api">>,
            body        |-> aqaraRequest,
            Accesstoken |-> IF authenticated THEN <<c.accessToken>> ELSE << >>,
            ContentType |-> "application/json",
            Appid       |-> c.appID,
            Keyid       |-> c.keyID,
            Nonce       |-> nonce,
            Time        |-> timestamp,
            Sign        |-> [ accessToken |-> c.accessToken,
                              nonce       |-> nonce,
                              timestamp   |-> timestamp ],
            Lang        |-> "en" ] :
          nonce \in { getNonce(nonceLength, t1) },
          timestamp \in { getTimestamp(t2) } } : TRUE

\* Lines 196-229: the URL, http.NewRequest, the nonce (seeded with the clock
\* reading t1), the timestamp (of the clock reading t2), the signature and
\* the headers.  The Sign header is sign applied to the arguments kept in
\* Sign; SignHeader below evaluates it.
apiCallRequest(c, aqaraRequest, authenticated, t1, t2) ==
    IF c.region \notin RegionServers
    THEN NoRequest
    ELSE
      CHOOSE r \in
        { [ sent        |-> TRUE,
            url         |-> <<"https://", c.region, "/v3.0/open/api">>,
            body        |-> aqaraRequest,
            Accesstoken |-> IF authenticated THEN <<c.accessToken>> ELSE << >>,
            ContentType |-> "application/json",
            Appid       |-> c.appID,
            Keyid       |-> c.keyID,
            Nonce       |-> nonce,
            Time        |-> timestamp,
            Sign        |-> [ accessToken |-> IF authenticated THEN c.accessToken ELSE Empty,
                              nonce       |-> nonce,
                              timestamp   |-> timestamp ],
            Lang        |-> "en" ] :
          nonce \in { getNonce(nonceLength, t1) },
          timestamp \in { getTimestamp(t2) } } : TRUE

\* The value of the Sign header of request r of client c (lines 218, 220).
SignHeader(c, r) == sign(c, r.Sign.accessToken, r.Sign.nonce, r.Sign.timestamp)

\* apiCall calling client.Do a second time when the first call failed or
\* answered with a status other than 200.
apiCallResultRetrying(c, req, rep, aqaraResponse) ==
    IF ~req.sent
    THEN [ response |-> aqaraResponse, err |-> Error("prepare", 0, Empty), sends |-> 0,
           log |-> << <<"Failed to prepare request">> >> ]
    ELSE IF rep.kind = "neterr"
    THEN [ response |-> aqaraResponse, err |-> Error("transport", 0, Empty), sends |-> 2,
           log |-> << <<"Failed to do request">> >> ]
    ELSE IF rep.status # 200
    THEN [ response |-> aqaraResponse, err |-> Error("status", rep.status, Empty), sends |-> 2,
           log |-> << <<"Status received", rep.status>> >> ]
    ELSE IF ~rep.readOK
    THEN [ response |-> aqaraResponse, err |-> Error("read", 0, Empty), sends |-> 1,
           log |-> << <<"Call successful">>, <<"Failed to get response body">> >> ]
    ELSE
      LET u == UnmarshalResponse(rep.body, aqaraResponse)
      IN  IF u.err
          THEN [ response |-> u.response, err |-> Error("decode", 0, Empty), sends |-> 1,
                 log |-> << <<"Call successful">>, <<"Failed to unmarshal response">> >> ]
          ELSE IF u.response.Code # 0
          THEN [ response |-> u.response,
                 err |-> Error("vendor", u.response.Code, Empty), sends |-> 1,
                 log |-> << <<"Call successful">>,
                            <<"Aqara response with code received with message",
                              u.response.Code, u.response.MessageDetail>> >> ]
          ELSE [ response |-> u.response, err |-> NoError, sends |-> 1,
                 log |-> << <<"Call successful">> >>
                         \o (IF c.debug THEN << <<"**DEBUG**", rep.body>> >> ELSE << >>) ]

\* apiCall logging the raw body of a successful call whatever a.debug is.
apiCallResultAlwaysLogsBody(c, req, rep, aqaraResponse) ==
    IF ~req.sent
    THEN [ response |-> aqaraResponse, err |-> Error("prepare", 0, Empty), sends |-> 0,
           log |-> << <<"Failed to prepare request">> >> ]
    ELSE IF rep.kind = "neterr"
    THEN [ response |-> aqaraResponse, err |-> Error("transport", 0, Empty), sends |-> 1,
           log |-> << <<"Failed to do request">> >> ]
    ELSE IF rep.status # 200
    THEN [ response |-> aqaraResponse, err |-> Error("status", rep.status, Empty), sends |-> 1,
           log |-> << <<"Status received", rep.status>> >> ]
    ELSE IF ~rep.readOK
    THEN [ response |-> aqaraResponse, err |-> Error("read", 0, Empty), sends |-> 1,
           log |-> << <<"Call successful">>, <<"Failed to get response body">> >> ]
    ELSE
      LET u == UnmarshalResponse(rep.body, aqaraResponse)
      IN  IF u.err
          THEN [ response |-> u.response, err |-> Error("decode", 0, Empty), sends |-> 1,
                 log |-> << <<"Call successful">>, <<"Failed to unmarshal response">> >> ]
          ELSE IF u.response.Code # 0
          THEN [ response |-> u.response,
                 err |-> Error("vendor", u.response.Code, Empty), sends |-> 1,
                 log |-> << <<"Call successful">>,
                            <<"Aqara response with code received with message",
                              u.response.Code, u.response.MessageDetail>> >> ]
          ELSE [ response |-> u.response, err |-> NoError, sends |-> 1,
                 log |-> << <<"Call successful">> >>
                         \o << <<"**DEBUG**", rep.body>> >> ]

\* Lines 207-211 and 231-266 for the request req and the transport's rep:
\* the response written through the pointer, the error returned, the number
\* of calls of client.Do (line 232, reached once when the request was
\* prepared and never again) and the lines logged.
apiCallResult(c, req, rep, aqaraResponse) ==
    IF ~req.sent
    THEN [ response |-> aqaraResponse, err |-> Error("prepare", 0, Empty), sends |-> 0,
           log |-> << <<"Failed to prepare request">> >> ]
    ELSE IF rep.kind = "neterr"
    THEN [ response |-> aqaraResponse, err |-> Error("transport", 0, Empty), sends |-> 1,
           log |-> << <<"Failed to do request">> >> ]
    ELSE IF rep.status # 200
    THEN [ response |-> aqaraResponse, err |-> Error("status", rep.status, Empty), sends |-> 1,
           log |-> << <<"Status received", rep.status>> >> ]
    ELSE IF ~rep.readOK
    THEN [ response |-> aqaraResponse, err |-> Error("read", 0, Empty), sends |-> 1,
           log |-> << <<"Call successful">>, <<"Failed to get response body">> >> ]
    ELSE
      LET u == UnmarshalResponse(rep.body, aqaraResponse)
      IN  IF u.err
          THEN [ response |-> u.response, err |-> Error("decode", 0, Empty), sends |-> 1,
                 log |-> << <<"Call successful">>, <<"Failed to unmarshal response">> >> ]
          ELSE IF u.response.Code # 0
          THEN [ response |-> u.response,
                 err |-> Error("vendor", u.response.Code, Empty), sends |-> 1,
                 log |-> << <<"Call successful">>,
                            <<"Aqara response with code received with message",
                              u.response.Code, u.response.MessageDetail>> >> ]
          ELSE [ response |-> u.response, err |-> NoError, sends |-> 1,
                 log |-> << <<"Call successful">> >>
                         \o (IF c.debug THEN << <<"**DEBUG**", rep.body>> >> ELSE << >>) ]

(***************************************************************************)
(* The typed decodes of the operations                                      *)
(***************************************************************************)

\* The Go string a JSON field decodes to: an absent field leaves "", a
\* number cannot be stored in a string field and leaves "" too.
FieldString(f) == IF f.t = "string" THEN f.s ELSE Empty

\* json.Unmarshal(response.Result, &result) of GetToken, lines 119-129.
UnmarshalTokenResult(raw) ==
    [ err          |-> \/ raw.type # "object"
                       \/ raw.accessToken.t = "number"
                       \/ raw.refreshToken.t = "number",
      AccessToken  |-> IF raw.type = "object" THEN FieldString(raw.accessToken) ELSE Empty,
      RefreshToken |-> IF raw.type = "object" THEN FieldString(raw.refreshToken) ELSE Empty ]

\* json.Unmarshal(response.Result, &result) of GetDevices, lines 162-184.
UnmarshalDeviceResult(raw) ==
    [ err        |-> raw.type # "object",
      TotalCount |-> IF raw.type = "object" THEN raw.totalCount ELSE 0 ]


(***************************************************************************)
(* The operations, part_001 lines 69-192                                    *)
(***************************************************************************)

\* GetToken decoding the result whatever the code of the response.
GetTokenDecodesAnyCode(resp) == TRUE

\* The conditions `if response.Code == 0` of GetToken (line 116) and of
\* GetDevices (line 161).
GetTokenDecodes(resp) == resp.Code = 0
GetDevicesDecodes(resp) == resp.Code = 0

\* GetToken storing the access token and leaving the refresh token.
StoreAccessTokenOnly(c, result) == [c EXCEPT !.accessToken = result.AccessToken]

\* GetToken assigning the access token to the keyID field.
StoreTokensInKeyID(c, result) ==
    [c EXCEPT !.keyID = result.AccessToken, !.refreshToken = result.RefreshToken]

\* The client after GetToken's assignments of lines 131-132.
StoreTokens(c, result) ==
    [c EXCEPT !.accessToken = result.AccessToken, !.refreshToken = result.RefreshToken]

\* GetAuthCode after apiCall returned r, lines 88-91.
GetAuthCodeAfter(c, r) ==
    [ a     |-> c,
      typed |-> "none",
      log   |-> r.log \o (IF r.err # NoError THEN << <<"Failed to do auth request">> >>
                                              ELSE << >>) ]

\* GetToken after apiCall returned r, lines 112-134.
GetTokenAfter(c, r) ==
    LET failed == IF r.err # NoError THEN << <<"Failed to do token request">> >> ELSE << >>
        result == UnmarshalTokenResult(r.response.Result)
    IN  IF GetTokenDecodes(r.response)
        THEN [ a     |-> StoreTokens(c, result),
               typed |-> IF result.err THEN "failed" ELSE "ok",
               log   |-> r.log \o failed
                         \o << <<"Login successful, updating account information">> >>
                         \o (IF result.err THEN << <<"Failed to unmarshal result">> >>
                                           ELSE << >>) ]
        ELSE [ a |-> c, typed |-> "none", log |-> r.log \o failed ]

\* GetDevices dropping the session's tokens when its apiCall returned an error.
GetDevicesAfterDroppingTokens(c, r) ==
    [ a     |-> IF r.err # NoError
                THEN [c EXCEPT !.accessToken = Empty, !.refreshToken = Empty]
                ELSE c,
      typed |-> IF r.response.Code = 0
                THEN (IF UnmarshalDeviceResult(r.response.Result).err THEN "failed" ELSE "ok")
                ELSE "none",
      log   |-> r.log ]

\* GetDevices after apiCall returned r, lines 157-192.
GetDevicesAfter(c, r) ==
    LET failed == IF r.err # NoError THEN << <<"Failed query devices">> >> ELSE << >>
        result == UnmarshalDeviceResult(r.response.Result)
    IN  IF GetDevicesDecodes(r.response)
        THEN [ a     |-> c,
               typed |-> IF result.err THEN "failed" ELSE "ok",
               log   |-> r.log \o failed
                         \o (IF result.err THEN << <<"Failed to unmarshal result">> >>
                                           ELSE << >>)
                         \o << <<"Number of devices received", result.TotalCount>> >> ]
        ELSE [ a |-> c, typed |-> "none", log |-> r.log \o failed ]

\* The executions of apiCall(aqaraRequest, &response, authenticated) on a zero
\* AqaraResponse from the current state.  The clock is read for the nonce and
\* again for the timestamp, each time the same reading or a later one; the
\* transport delivers any reply.  A request that cannot be prepared reads no
\* clock and reaches no transport.
apiCall(aqaraRequest, authenticated) ==
    UNION { UNION { { [ request |-> req,
                        reply   |-> rep,
                        now     |-> IF req.sent THEN clock + d[1] + d[2] ELSE clock,
                        result  |-> apiCallResult(a, req, rep, ZeroResponse) ] :
                      rep \in (IF req.sent THEN Replies ELSE { NoReply }) } :
                    req \in { apiCallRequest(a, aqaraRequest, authenticated,
                                             clock + d[1], clock + d[1] + d[2]) } } :
            d \in { e \in ClockSteps \X ClockSteps :
                      IF a.region \in RegionServers
                      THEN /\ Len(nonces) < MaxCalls
                           /\ clock + e[1] + e[2] <= StartClock + MaxTicks
                      ELSE e = <<0, 0>> } }

\* The operation name returns after the execution call of apiCall and its
\* own steps h.  An operation has no result values: its caller gets nothing.
Returns(name, call, h) ==
    /\ a' = h.a
    /\ pre' = a
    /\ clock' = call.now
    /\ nonces' = IF call.request.sent THEN Append(nonces, call.request.Nonce) ELSE nonces
    /\ op' = name
    /\ request' = call.request
    /\ sends' = call.result.sends
    /\ reply' = call.reply
    /\ response' = call.result.response
    /\ err' = call.result.err
    /\ typed' = h.typed
    /\ log' = h.log
    /\ ret' = NoValue
    /\ UNCHANGED <<signed, test, thr>>

\* GetAuthCode(), lines 70-91.
GetAuthCode ==
    \E call \in apiCall([ Intent |-> "config.auth.getAuthCode",
                          Data   |-> [ account |-> a.account, accountType |-> 0,
                                       accessTokenValidity |-> "1h" ] ], FALSE) :
      Returns(<<"GetAuthCode">>, call, GetAuthCodeAfter(a, call.result))

\* GetToken(authCode), lines 94-134.
GetToken(authCode) ==
    \E call \in apiCall([ Intent |-> "config.auth.getToken",
                          Data   |-> [ authCode |-> authCode, account |-> a.account,
                                       accountType |-> 0 ] ], FALSE) :
      Returns(<<"GetToken", authCode>>, call, GetTokenAfter(a, call.result))

\* GetDevices(), lines 137-192.
GetDevices ==
    \E call \in apiCall([ Intent |-> "query.device.info",
                          Data   |-> [ dids |-> << >>, positionId |-> Empty,
                                       pageNum |-> 1, pageSize |-> 100 ] ], TRUE) :
      Returns(<<"GetDevices">>, call, GetDevicesAfter(a, call.result))

NoSign == [called |-> FALSE]

\* No operations running concurrently.
NoThreads ==
    [ devices |-> "idle", token |-> "idle", result |-> UnmarshalTokenResult(NoResult),
      Accesstoken |-> << >>, signToken |-> << >>, between |-> FALSE ]

\* A client as New returns it, before any operation.
Init ==
    /\ a \in { New(r, AppID0, KeyID0, AppKey0, Account0, d) :
                 r \in { ServerRegionEurope, InvalidRegion }, d \in BOOLEAN }
    /\ pre = a
    /\ clock = StartClock
    /\ nonces = << >>
    /\ op = <<"none">>
    /\ request = NoRequest
    /\ sends = 0
    /\ reply = NoReply
    /\ response = ZeroResponse
    /\ err = NoError
    /\ typed = "none"
    /\ log = << >>
    /\ ret = NoValue
    /\ signed = NoSign
    /\ test = "not run"
    /\ thr = NoThreads

Next ==
    \/ GetAuthCode
    \/ \E authCode \in AuthCodes : GetToken(authCode)
    \/ GetDevices

Spec == Init /\ [][Next]_vars


(***************************************************************************)
(* sign called directly, and TestSign (part_001 lines 308-327)              *)
(***************************************************************************)

\* The values of TestSign, lines 311-319.
\* "532cad73c5493193d63d367016b98b27"
Test_accessToken ==
    <<53, 51, 50, 99, 97, 100, 55, 51, 99, 53, 52, 57, 51, 49, 57, 51, 100,
      54, 51, 100, 51, 54, 55, 48, 49, 54, 98, 57, 56, 98, 50, 55>>
\* "4e693d54d75db580a56d1263"
Test_appID ==
    <<52, 101, 54, 57, 51, 100, 53, 52, 100, 55, 53, 100, 98, 53, 56, 48,
      97, 53, 54, 100, 49, 50, 54, 51>>
\* "k.78784564654feda454557"
Test_keyID ==
    <<107, 46, 55, 56, 55, 56, 52, 53, 54, 52, 54, 53, 52, 102, 101, 100,
      97, 52, 53, 52, 53, 53, 55>>
\* "gU7Qtxi4dWnYAdmudyxni52bWZ58b8uN"
Test_appKey ==
    <<103, 85, 55, 81, 116, 120, 105, 52, 100, 87, 110, 89, 65, 100, 109,
      117, 100, 121, 120, 110, 105, 53, 50, 98, 87, 90, 53, 56, 98, 56,
      117, 78>>
\* "test"
Test_account ==
    <<116, 101, 115, 116>>
\* "C6wuzd0Qguxzelhb"
Test_nonce ==
    <<67, 54, 119, 117, 122, 100, 48, 81, 103, 117, 120, 122, 101, 108,
      104, 98>>
\* "1618914078668"
Test_timestamp ==
    <<49, 54, 49, 56, 57, 49, 52, 48, 55, 56, 54, 54, 56>>
\* "314a6f6fd46264e6ec872e21f88361c3"
Test_expectedSignature ==
    <<51, 49, 52, 97, 54, 102, 54, 102, 100, 52, 54, 50, 54, 52, 101, 54,
      101, 99, 56, 55, 50, 101, 50, 49, 102, 56, 56, 51, 54, 49, 99, 51>>

\* The client TestSign constructs, line 321: the fourth argument of New is
\* appKey and the third keyID, and the test passes appKey third, keyID fourth.
TestSignClient ==
    New(ServerRegionEurope, Test_appID, Test_appKey, Test_keyID, Test_account, FALSE)

\* Credentials, tokens, nonces and timestamps sign is applied to
\* ("Id", "4e"; "Kd", "k.7"; "Ky", "gU7"; "", "A", "b5"; "C6", "zz"; "0", "16").
SignAppIDs     == { AppID0, <<52, 101>> }
SignKeyIDs     == { KeyID0, <<107, 46, 55>> }
SignAppKeys    == { AppKey0, <<103, 85, 55>> }
SignTokens     == { Empty, TokA, <<98, 53>> }
SignNonces     == { <<67, 54>>, <<122, 122>> }
SignTimestamps == { <<48>>, <<49, 54>> }

\* A call c.sign(accessToken, nonce, timestamp): its arguments, the string
\* it hashes and the signature it returns.
SignCall(c, accessToken, nonce, timestamp) ==
    [ called      |-> TRUE,
      accessToken |-> accessToken,
      nonce       |-> nonce,
      timestamp   |-> timestamp,
      hashed      |-> SignString(c, accessToken, nonce, timestamp),
      signature   |-> sign(c, accessToken, nonce, timestamp) ]

\* sign applied to some arguments by the client a.
Sign ==
    \E accessToken \in SignTokens, nonce \in SignNonces, timestamp \in SignTimestamps :
      /\ signed' = SignCall(a, accessToken, nonce, timestamp)
      /\ UNCHANGED <<a, pre, clock, nonces, op, request, sends, reply, response, err,
                     typed, log, ret, test, thr>>

\* TestSign, lines 308-327: a new client, one call of sign, and t.Errorf
\* when the signature is not the expected one.
TestSign ==
    /\ test = "not run"
    /\ \E s \in { SignCall(TestSignClient, Test_accessToken, Test_nonce, Test_timestamp) } :
         /\ signed' = s
         /\ test' = IF s.signature # Test_expectedSignature THEN "failed" ELSE "passed"
    /\ a' = TestSignClient
    /\ pre' = TestSignClient
    /\ UNCHANGED <<clock, nonces, op, request, sends, reply, response, err, typed, log,
                   ret, thr>>

\* Clients as New returns them, for the calls of sign.
InitSign ==
    /\ a \in { New(ServerRegionEurope, i, k, y, Account0, FALSE) :
                 i \in SignAppIDs, k \in SignKeyIDs, y \in SignAppKeys }
    /\ pre = a
    /\ clock = StartClock
    /\ nonces = << >>
    /\ op = <<"none">>
    /\ request = NoRequest
    /\ sends = 0
    /\ reply = NoReply
    /\ response = ZeroResponse
    /\ err = NoError
    /\ typed = "none"
    /\ log = << >>
    /\ ret = NoValue
    /\ signed = NoSign
    /\ test = "not run"
    /\ thr = NoThreads

NextSign == Sign \/ TestSign

SpecSign == InitSign /\ [][NextSign]_vars


(***************************************************************************)
(* GetDevices and GetToken called concurrently on one client                *)
(* (part_001 lines 131-132 and 216-218)                                     *)
(***************************************************************************)

\* The value apiCall adds as the Accesstoken header, line 217.
HeaderToken(c) == c.accessToken

\* apiCall signing over the refresh token.
SignTokenRefresh(c) == c.refreshToken

\* The token apiCall passes to sign, line 218: a second read of the field.
SignToken(c) == c.accessToken

\* The sessions a client can hold when the two calls start: as New left it,
\* or as an earlier GetToken left it.
RaceClients ==
    { StoreTokens(New(ServerRegionEurope, AppID0, KeyID0, AppKey0, Account0, FALSE),
                  UnmarshalTokenResult(r)) : r \in Results }

\* The two goroutines share a with no lock.  GetDevices is in apiCall at line
\* 216 with authenticated true; GetToken has passed line 116 and holds its
\* decoded result at line 131.  Each step below is one line of the source;
\* the steps interleave in every order, so that a read of a.accessToken
\* racing with the assignment of line 131 yields the value before it or the
\* value after it.
InitRace ==
    /\ a \in RaceClients
    /\ pre = a
    /\ clock = StartClock
    /\ nonces = << >>
    /\ op = <<"none">>
    /\ request = NoRequest
    /\ sends = 0
    /\ reply = NoReply
    /\ response = ZeroResponse
    /\ err = NoError
    /\ typed = "none"
    /\ log = << >>
    /\ ret = NoValue
    /\ signed = NoSign
    /\ test = "not run"
    /\ thr \in { [ devices |-> "217", token |-> "131", result |-> UnmarshalTokenResult(r),
                    Accesstoken |-> << >>, signToken |-> << >>, between |-> FALSE ] :
                  r \in Results }

\* Line 217 of the GetDevices call: request.Header.Add("Accesstoken", a.accessToken).
DevicesAddHeader ==
    /\ thr.devices = "217"
    /\ thr' = [thr EXCEPT !.devices = "218", !.Accesstoken = <<HeaderToken(a)>>]
    /\ UNCHANGED <<a, pre, clock, nonces, op, request, sends, reply, response, err,
                   typed, log, ret, signed, test>>

\* Line 218 of the GetDevices call: a.sign(a.accessToken, nonce, timestamp).
DevicesSign ==
    /\ thr.devices = "218"
    /\ thr' = [thr EXCEPT !.devices = "223", !.signToken = <<SignToken(a)>>]
    /\ UNCHANGED <<a, pre, clock, nonces, op, request, sends, reply, response, err,
                   typed, log, ret, signed, test>>

\* Line 131 of the GetToken call: a.accessToken = result.AccessToken.  between
\* records that the assignment fell between lines 217 and 218 of GetDevices.
TokenStoreAccess ==
    /\ thr.token = "131"
    /\ a' = [a EXCEPT !.accessToken = thr.result.AccessToken]
    /\ thr' = [thr EXCEPT !.token = "132",
                          !.between = (thr.devices = "218")]
    /\ UNCHANGED <<pre, clock, nonces, op, request, sends, reply, response, err,
                   typed, log, ret, signed, test>>

\* Line 132 of the GetToken call: a.refreshToken = result.RefreshToken.
TokenStoreRefresh ==
    /\ thr.token = "132"
    /\ a' = [a EXCEPT !.refreshToken = thr.result.RefreshToken]
    /\ thr' = [thr EXCEPT !.token = "134"]
    /\ UNCHANGED <<pre, clock, nonces, op, request, sends, reply, response, err,
                   typed, log, ret, signed, test>>

NextRace ==
    \/ DevicesAddHeader
    \/ DevicesSign
    \/ TokenStoreAccess
    \/ TokenStoreRefresh

SpecRace == InitRace /\ [][NextRace]_vars


(***************************************************************************)
(* The claims                                                               *)
(***************************************************************************)

\* The last operation was name.
Was(name) == op[1] = name

\* The last operation's apiCall decoded a response envelope without error.
EnvelopeDecoded ==
    /\ request.sent
    /\ reply.kind = "http" /\ reply.status = 200 /\ reply.readOK
    /\ reply.body.valid /\ ~reply.body.mismatch

\* C1: after a GetToken whose apiCall returned an error of any kind, the
\* client's accessToken and refreshToken are what they were before the call.
C1_FailedExchangeKeepsTokens ==
    (Was("GetToken") /\ err # NoError) =>
        /\ a.accessToken = pre.accessToken
        /\ a.refreshToken = pre.refreshToken

\* C2: after an operation in which apiCall returned an error, or in which the
\* result payload could not be decoded, the operation's caller holds a
\* failure value.
C2_ErrorsReachTheCaller ==
    (~Was("none") /\ (err # NoError \/ typed = "failed")) => ret # NoValue

\* C3: accessToken and refreshToken are both empty or both non-empty.
C3_TokensBothOrNeither ==
    (a.accessToken = Empty) <=> (a.refreshToken = Empty)

\* C4: when apiCall decoded an envelope with a non-zero code it returns the
\* vendor error; and whenever the operation's response holds a non-zero code
\* the operation does not decode the result into its typed structure and the
\* client stores nothing from it.
C4_NonZeroCodeIsNeverDecoded ==
    /\ (EnvelopeDecoded /\ reply.body.code # 0) =>
          err = Error("vendor", reply.body.code, Empty)
    /\ (~Was("none") /\ response.Code # 0) => (typed = "none" /\ a = pre)

\* C4 witness: a GetToken with tokens A, R in a decoded envelope of non-zero code.
C4_Witness ==
    /\ Was("GetToken") /\ EnvelopeDecoded /\ reply.body.code # 0
    /\ reply.body.result = Object(Str(TokA), Str(RefR), 0)

\* The vendor's canonical string, lower-cased field by field, for the
\* credentials appID, keyID, appKey (all of the literals in lower case:
\* "accesstoken=", "appid=", "&appid=", "&keyid=", "&nonce=", "&time=").
VendorString(appID, keyID, appKey, accessToken, nonce, timestamp) ==
    (IF accessToken # Empty
     THEN <<97, 99, 99, 101, 115, 115, 116, 111, 107, 101, 110, 61>> \o ToLower(accessToken)
            \o <<38, 97, 112, 112, 105, 100, 61>>
     ELSE <<97, 112, 112, 105, 100, 61>>)
    \o ToLower(appID) \o <<38, 107, 101, 121, 105, 100, 61>> \o ToLower(keyID)
    \o <<38, 110, 111, 110, 99, 101, 61>> \o ToLower(nonce)
    \o <<38, 116, 105, 109, 101, 61>> \o ToLower(timestamp) \o ToLower(appKey)

\* The characters 0-9 and a-f.
LowerHex == (48..57) \cup (97..102)

\* C5: the string sign hashes is the lower-cased vendor string, with the
\* Accesstoken field exactly when the token is non-empty and the client's own
\* appID, keyID and appKey in the Appid, Keyid and trailing positions; the
\* signature is the MD5 of that string in 32 lower-case hexadecimal digits.
C5_SignHashesTheVendorString ==
    signed.called =>
        /\ signed.hashed =
             VendorString(a.appID, a.keyID, a.appKey,
                          signed.accessToken, signed.nonce, signed.timestamp)
        /\ signed.signature =
             HexEncode(MD5_Sum(VendorString(a.appID, a.keyID, a.appKey,
                          signed.accessToken, signed.nonce, signed.timestamp)))
        /\ Len(signed.signature) = 32
        /\ \A i \in 1..Len(signed.signature) : signed.signature[i] \in LowerHex

\* C5 witness: a token with an upper-case letter signed by a client whose
\* key ID and application key differ and hold upper-case letters.
C5_Witness ==
    /\ signed.called
    /\ signed.accessToken = TokA
    /\ a.keyID = KeyID0 /\ a.appKey = <<103, 85, 55>>

\* C6: the client TestSign constructs signs the test's token, nonce and
\* timestamp to the expected signature, hashing the vendor string of the
\* test's appID, keyID and appKey.
C6_TestSignYieldsTheKnownVector ==
    (test # "not run") =>
        /\ signed.signature = Test_expectedSignature
        /\ signed.hashed =
             VendorString(Test_appID, Test_keyID, Test_appKey,
                          Test_accessToken, Test_nonce, Test_timestamp)

\* C7: the request of GetDevices carries the session's access token in its
\* Accesstoken header and is signed over that token; the request of
\* GetAuthCode and of GetToken carries no Accesstoken header and is signed
\* over the empty token; the signature is over the request's own Nonce and
\* Time headers.
C7_TokenOnlyWhenAuthenticated ==
    request.sent =>
        /\ request.Sign.nonce = request.Nonce
        /\ request.Sign.timestamp = request.Time
        /\ IF Was("GetDevices")
           THEN /\ request.Accesstoken = <<pre.accessToken>>
                /\ request.Sign.accessToken = pre.accessToken
           ELSE /\ request.Accesstoken = << >>
                /\ request.Sign.accessToken = Empty

\* C7 witness: an unauthenticated call made while the session holds a token.
C7_Witness ==
    /\ request.sent /\ Was("GetToken")
    /\ pre.accessToken = TokA

\* C8: the error apiCall returns for a decoded envelope of non-zero code
\* carries the code and the envelope's messageDetail.
C8_VendorErrorCarriesCodeAndDetail ==
    (EnvelopeDecoded /\ reply.body.code # 0) =>
        /\ err.code = reply.body.code
        /\ err.detail = reply.body.messageDetail

\* C9: no two outbound calls carry the same nonce.
C9_NoncesNeverRepeat ==
    \A i, j \in DOMAIN nonces : i # j => nonces[i] # nonces[j]

\* C10: after a GetToken whose apiCall returned no error, accessToken and
\* refreshToken are the accessToken and refreshToken fields of the result
\* payload of the reply (an absent or non-string field reading as empty),
\* whatever they were before.
C10_SuccessOverwritesBothTokens ==
    (Was("GetToken") /\ err = NoError) =>
        /\ EnvelopeDecoded /\ reply.body.code = 0
        /\ a.accessToken = FieldString(reply.body.result.accessToken)
        /\ a.refreshToken = FieldString(reply.body.result.refreshToken)

\* C10 witness: a session holding A, R exchanged to B, S.
C10_Witness ==
    /\ Was("GetToken") /\ err = NoError
    /\ pre.accessToken = TokA /\ pre.refreshToken = RefR
    /\ a.accessToken = TokB /\ a.refreshToken = RefS

\* C11: after a GetAuthCode or a GetDevices, whatever its apiCall returned,
\* accessToken and refreshToken are what they were when it was invoked.
C11_OnlyGetTokenChangesTokens ==
    (Was("GetAuthCode") \/ Was("GetDevices")) =>
        /\ a.accessToken = pre.accessToken
        /\ a.refreshToken = pre.refreshToken

\* C11 witness: a GetDevices that fails with a vendor error while the
\* session holds the tokens A, R.
C11_Witness ==
    /\ Was("GetDevices") /\ err.kind = "vendor"
    /\ pre.accessToken = TokA /\ pre.refreshToken = RefR

\* C12: the client's region, appID, keyID, appKey and account are those
\* passed to New and those it had when the last operation was invoked, and
\* every request goes to https://{region}/v3.0/open/api with that appID and
\* keyID in its Appid and Keyid headers.
C12_CredentialsNeverChange ==
    /\ a.region = pre.region
    /\ a.appID = AppID0 /\ a.keyID = KeyID0 /\ a.appKey = AppKey0
    /\ a.account = Account0
    /\ request.sent =>
          /\ request.url = <<"https://", pre.region, "/v3.0/open/api">>
          /\ request.Appid = AppID0
          /\ request.Keyid = KeyID0

\* C12 witness: a second request, sent after a GetToken that changed the
\* session's tokens.
C12_Witness ==
    /\ request.sent /\ Len(nonces) = 2
    /\ Was("GetAuthCode") /\ a.accessToken = TokB

C14_EmptyTokenSignsAnotherString ==
    signed.called =>
        /\ \A tok \in (SignTokens \cup {signed.accessToken}) \ {Empty} :
             SignString(a, Empty, signed.nonce, signed.timestamp)
               # SignString(a, tok, signed.nonce, signed.timestamp)
        /\ signed.accessToken # Empty =>
             signed.hashed # SignString(a, Empty, signed.nonce, signed.timestamp)

\* C14 witness: sign called with the token "b5" by the client of appID "4e".
C14_Witness ==
    /\ signed.called
    /\ signed.accessToken = <<98, 53>>
    /\ a.appID = <<52, 101>>

\* C15: an operation applies json.Unmarshal to the result payload only when
\* its apiCall received a response and decoded its envelope with code 0.
C15_TypedDecodeOnlyAfterCodeZeroEnvelope ==
    typed # "none" => (EnvelopeDecoded /\ reply.body.code = 0)

\* The last operation logged the raw body of the reply as a debug line.
BodyLogged == \E i \in DOMAIN log : log[i] = <<"**DEBUG**", reply.body>>

\* The last operation logged some debug line.
DebugLogged == \E i \in DOMAIN log : log[i][1] = "**DEBUG**"

\* The last operation received a 200 response whose body could be read.
BodyRead ==
    request.sent /\ reply.kind = "http" /\ reply.status = 200 /\ reply.readOK

\* C16: with debug set, the raw body of every 200 response whose body could
\* be read is logged, whether or not its envelope decodes and whatever its
\* code; with debug unset no raw body is logged.
C16_DebugLogsEveryReadBody ==
    /\ (a.debug /\ BodyRead) => BodyLogged
    /\ ~a.debug => ~DebugLogged

\* C16 as amended: with debug set, the raw body is logged exactly when
\* apiCall returned no error (a 200 response, a decoded envelope, code 0),
\* and not for a body that failed to decode or carries a non-zero code; with
\* debug unset no raw body is logged.
C16_DebugLogsSuccessfulBody ==
    /\ (a.debug /\ BodyRead) => (BodyLogged <=> err = NoError)
    /\ (a.debug /\ ~BodyRead) => ~DebugLogged
    /\ ~a.debug => ~DebugLogged

\* C16 witness: a client with debug set whose GetDevices succeeded and
\* logged the body.
C16_Witness ==
    /\ a.debug /\ Was("GetDevices") /\ err = NoError
    /\ BodyLogged

\* C17: when the GetDevices call running beside a GetToken has built its
\* request, the value of its Accesstoken header is the token its signature
\* was computed over.
C17_HeaderIsTheSignedTokenInEveryInterleaving ==
    thr.devices = "223" => thr.Accesstoken = thr.signToken

\* C17 as amended: the header is the signed token whenever the assignment of
\* line 131 did not fall between the two reads of lines 217 and 218, as
\* when the caller serializes the two calls; both are then the session's
\* token either before or after the exchange.
C17_HeaderIsTheSignedTokenWhenNotInterleaved ==
    (thr.devices = "223" /\ ~thr.between) =>
        /\ thr.Accesstoken = thr.signToken
        /\ thr.Accesstoken \in { <<pre.accessToken>>, <<thr.result.AccessToken>> }

\* C17 witness: the exchange stored another token before GetDevices read it,
\* and the request carries and signs the new token.
C17_Witness ==
    /\ thr.devices = "223" /\ thr.token = "134" /\ ~thr.between
    /\ pre.accessToken = TokA /\ a.accessToken = TokB
    /\ thr.Accesstoken = <<TokB>>

=============================================================================
